---- MODULE Spec2Model ----
(***************************************************************************)
(* ResilientPageIndexer (src/pageindex/resilient_indexer_gemini.py): a     *)
(* checkpointed pipeline INITIALIZE -> EXTRACT_NODES -> VERIFY driven by   *)
(* run(), with the checkpoint kept in one JSON file.  One process at a     *)
(* time owns the file; a process can be killed at any point and run()      *)
(* aborts when an external call or a save raises.                          *)
(***************************************************************************)
EXTENDS Integers, Sequences, FiniteSets, TLC

\* ------------------------------------------------------------------ bounds
MaxPages == 3          \* page counts of the documents considered: 0..MaxPages
MaxGroupSize == 2      \* opt.max_page_num_each_node is drawn from 1..MaxGroupSize
NumVariants == 2       \* distinct answers the extraction service may give for one group

VARIABLES
    pages,       \* get_number_of_pages(pdf_path) of the document being indexed
    disk,        \* the checkpoint file at state_path
    prev_disk,   \* history: the file's content when the current/last save opened it
    state,       \* self.state of the running process
    opt,         \* self.opt.max_page_num_each_node of the running process
    pc,          \* position of the process in __init__/run(), or how the last one ended
    ret,         \* where control continues after the _save_state() in progress
    i,           \* the loop variable of the extraction loop
    loaded,      \* history: what _load_state returned to the current/last process
    calls,       \* history: the external calls the current/last process issued, in order
    result,      \* what run() returned (<<>> while it has not returned)
    succeeded,   \* history: the calls that ever returned to some process
                 \* ("generate_toc_init", or the group key of an extraction)
    succeeded_before  \* history: succeeded, as it was when the current/last process started

vars == <<pages, disk, prev_disk, state, opt, pc, ret, i, loaded, calls, result,
          succeeded, succeeded_before>>

\* ------------------------------------------------------- pure helpers
Digit == <<"0", "1", "2", "3", "4", "5", "6", "7", "8", "9">>

\* str(i) for a non-negative int: its decimal digits
RECURSIVE Str(_)
Str(n) == IF n < 10 THEN Digit[n + 1] ELSE Str(n \div 10) \o Digit[(n % 10) + 1]

\* math.ceil(a / b) for a >= 0, b > 0
Ceil_floor(a, b) == a \div b
Ceil_plusone(a, b) == (a \div b) + 1
Ceil(a, b) == IF a % b = 0 THEN a \div b ELSE (a \div b) + 1

\* range(1, total + 1)
GroupRange_short(total) == 1..(total - 1)
GroupRange(total) == 1..total

\* `key in self.state["completed_groups"]` (a list of strings)
InCompleted_never(key, s) == FALSE
InCompleted(key, s) == \E k \in 1..Len(s.completed_groups) : s.completed_groups[k] = key

\* the dict _load_state returns when no checkpoint file exists
DefaultState ==
    [step |-> "INITIALIZE", completed_groups |-> <<>>, toc_segments |-> <<>>,
     total_groups |-> 0, total_pages |-> 0]

\* the three shapes of the checkpoint file
Absent == [kind |-> "absent"]
Partial == [kind |-> "partial"]     \* opened with 'w' (truncated), dump not finished
Json(s) == [kind |-> "json", state |-> s]

\* _load_state: ok = FALSE when json.load raises
LoadState_fabricate(d) ==
    IF d.kind = "json" THEN [ok |-> TRUE, state |-> d.state]
    ELSE [ok |-> TRUE, state |-> DefaultState]
LoadState(d) ==
    IF d.kind = "absent" THEN [ok |-> TRUE, state |-> DefaultState]
    ELSE IF d.kind = "json" THEN [ok |-> TRUE, state |-> d.state]
    ELSE [ok |-> FALSE, state |-> DefaultState]

\* line 42: the page count is taken only while the state has none
NeedsPageCount_always(s) == TRUE
NeedsPageCount(s) == s.total_pages = 0

\* lines 43-45: total_pages and total_groups
WithPageCount(s, n, g) == [s EXCEPT !.total_pages = n, !.total_groups = Ceil(n, g)]

\* the value written to state["step"] after generate_toc_init succeeded
StepAfterInit_skip == "VERIFY"
StepAfterInit == "EXTRACT_NODES"

\* the value written to state["step"] after the extraction loop
StepAfterLoop_back == "INITIALIZE"
StepAfterLoop == "VERIFY"

\* lines 103 and 114: the two tests that lead to a verify_toc call
NeedsVerify_verifyonly(s) == s.step = "VERIFY"
NeedsVerify(s) == s.step = "VERIFY" \/ s.step = "COMPLETED"

\* lines 92-93: record a finished group
AppendGroup_front(s, n, seg) ==
    [s EXCEPT !.toc_segments = <<seg>> \o @, !.completed_groups = Append(@, Str(n))]
AppendGroup_nosegment(s, n, seg) ==
    [s EXCEPT !.completed_groups = Append(@, Str(n))]
AppendGroup(s, n, seg) ==
    [s EXCEPT !.toc_segments = Append(@, seg), !.completed_groups = Append(@, Str(n))]

\* what generate_toc_continue(pdf, str(n), opt) can return: opaque, tied to the
\* group asked for, not determined by it
Segments(key) == { [group |-> key, variant |-> v] : v \in 1..NumVariants }

\* what verify_toc(segments, opt) returns: a structure built from its argument
VerifyToc(segs) == [built_from |-> segs]

\* entries of the call log
InitCall == [fn |-> "generate_toc_init", group |-> "", segments |-> <<>>, result |-> <<>>]
ExtractCall(key) == [fn |-> "generate_toc_continue", group |-> key, segments |-> <<>>, result |-> <<>>]
VerifyCall_nosegments(segs) ==
    [fn |-> "verify_toc", group |-> "", segments |-> <<>>, result |-> <<>>]
VerifyCall(segs) == [fn |-> "verify_toc", group |-> "", segments |-> segs, result |-> <<>>]
Returned(log, v) == [log EXCEPT ![Len(log)].result = <<v>>]

\* a call to self._save_state(), continuing at `after`
SaveThen_forgotten(after) == pc' = after /\ ret' = ret
SaveThen(after) == pc' = "save_open" /\ ret' = after

Running == {"step0", "step1", "call_init", "step2", "loop", "call_extract", "sleep",
            "step3", "call_verify", "save_open", "save_dump"}
Ended == {"idle", "load_error", "raised", "killed", "returned"}

\* ------------------------------------------------------- initial states
InitProcess ==
    /\ prev_disk = Absent
    /\ state = DefaultState
    /\ opt = 1
    /\ pc = "idle"
    /\ ret = "step0"
    /\ i = 1
    /\ loaded = DefaultState
    /\ calls = <<>>
    /\ result = <<>>

\* no checkpoint yet
Init ==
    /\ pages \in 0..MaxPages
    /\ disk = Absent
    /\ succeeded = {}
    /\ succeeded_before = {}
    /\ InitProcess

\* --------------------------------------------------------------- actions
\* __init__ (lines 14-20) of a new process, with this invocation's configuration
Construct(g) ==
    /\ pc \in Ended
    /\ opt' = g
    /\ LET r == LoadState(disk) IN
        IF r.ok
        THEN /\ state' = r.state
             /\ loaded' = r.state
             /\ pc' = "step0"
        ELSE /\ pc' = "load_error"
             /\ UNCHANGED <<state, loaded>>
    /\ calls' = <<>>
    /\ result' = <<>>
    /\ i' = 1
    /\ succeeded_before' = succeeded
    /\ UNCHANGED <<succeeded, pages, disk, prev_disk, ret>>

StartRun == \E g \in 1..MaxGroupSize : Construct(g)

\* lines 42-46
Step0 ==
    /\ pc = "step0"
    /\ IF NeedsPageCount(state)
       THEN /\ state' = WithPageCount(state, pages, opt)
            /\ SaveThen("step1")
       ELSE /\ pc' = "step1"
            /\ UNCHANGED <<state, ret>>
    /\ UNCHANGED <<succeeded, succeeded_before, pages, disk, prev_disk, opt, i, loaded, calls, result>>

\* lines 49-52: the call to generate_toc_init is issued
Step1 ==
    /\ pc = "step1"
    /\ IF state.step = "INITIALIZE"
       THEN /\ calls' = Append(calls, InitCall)
            /\ pc' = "call_init"
       ELSE /\ pc' = "step2"
            /\ UNCHANGED calls
    /\ UNCHANGED <<succeeded, succeeded_before, pages, disk, prev_disk, state, opt, ret, i, loaded, result>>

\* lines 52-54: generate_toc_init returned
InitReturns ==
    /\ pc = "call_init"
    /\ state' = [state EXCEPT !.step = StepAfterInit]
    /\ calls' = Returned(calls, "toc")
    /\ succeeded' = succeeded \cup {"generate_toc_init"}
    /\ SaveThen("step2")
    /\ UNCHANGED <<succeeded_before, pages, disk, prev_disk, opt, i, loaded, result>>

\* lines 81-83
Step2 ==
    /\ pc = "step2"
    /\ IF state.step = "EXTRACT_NODES"
       THEN pc' = "loop" /\ i' = 1
       ELSE pc' = "step3" /\ i' = i
    /\ UNCHANGED <<succeeded, succeeded_before, pages, disk, prev_disk, state, opt, ret, loaded, calls, result>>

\* lines 83-90 and 99-100: one test of the loop
Loop ==
    /\ pc = "loop"
    /\ IF i \notin GroupRange(state.total_groups)
       THEN /\ state' = [state EXCEPT !.step = StepAfterLoop]
            /\ SaveThen("step3")
            /\ UNCHANGED <<i, calls>>
       ELSE IF InCompleted(Str(i), state)
       THEN /\ i' = i + 1
            /\ UNCHANGED <<state, pc, ret, calls>>
       ELSE /\ calls' = Append(calls, ExtractCall(Str(i)))
            /\ pc' = "call_extract"
            /\ UNCHANGED <<state, ret, i>>
    /\ UNCHANGED <<succeeded, succeeded_before, pages, disk, prev_disk, opt, loaded, result>>

\* lines 90-94: generate_toc_continue returned a segment
ExtractReturns ==
    /\ pc = "call_extract"
    /\ \E seg \in Segments(Str(i)) :
        /\ state' = AppendGroup(state, i, seg)
        /\ calls' = Returned(calls, seg)
    /\ succeeded' = succeeded \cup {Str(i)}
    /\ SaveThen("sleep")
    /\ UNCHANGED <<succeeded_before, pages, disk, prev_disk, opt, i, loaded, result>>

\* line 97, then the next iteration
Sleep ==
    /\ pc = "sleep"
    /\ i' = i + 1
    /\ pc' = "loop"
    /\ UNCHANGED <<succeeded, succeeded_before, pages, disk, prev_disk, state, opt, ret, loaded, calls, result>>

\* lines 103-106 and 114-117: the tests on step after the loop; verify_toc is issued
Step3 ==
    /\ pc = "step3"
    /\ IF NeedsVerify(state)
       THEN /\ calls' = Append(calls, VerifyCall(state.toc_segments))
            /\ pc' = "call_verify"
            /\ UNCHANGED result
       ELSE /\ pc' = "returned"
            /\ result' = <<"None">>
            /\ UNCHANGED calls
    /\ UNCHANGED <<succeeded, succeeded_before, pages, disk, prev_disk, state, opt, ret, i, loaded>>

\* lines 106-111 and 117: verify_toc returned and run() returns its value
VerifyReturns ==
    /\ pc = "call_verify"
    /\ LET v == VerifyToc(calls[Len(calls)].segments) IN
        /\ calls' = Returned(calls, v)
        /\ result' = <<v>>
    /\ pc' = "returned"
    /\ UNCHANGED <<succeeded, succeeded_before, pages, disk, prev_disk, state, opt, ret, i, loaded>>

\* call_with_backoff raises out of run() (fatal error or retries exhausted)
CallRaises_recorded ==
    /\ pc \in {"call_init", "call_extract", "call_verify"}
    /\ pc' = "raised"
    /\ state' = IF pc = "call_extract"
                THEN [state EXCEPT !.completed_groups = Append(@, Str(i))]
                ELSE state
    /\ disk' = Json(state')
    /\ UNCHANGED <<succeeded, succeeded_before, pages, prev_disk, opt, ret, i, loaded,
                   calls, result>>
CallRaises ==
    /\ pc \in {"call_init", "call_extract", "call_verify"}
    /\ pc' = "raised"
    /\ UNCHANGED <<succeeded, succeeded_before, pages, disk, prev_disk, state, opt, ret, i, loaded, calls, result>>

\* line 37: open(state_path, 'w') truncates the file
SaveOpen ==
    /\ pc = "save_open"
    /\ prev_disk' = disk
    /\ disk' = Partial
    /\ pc' = "save_dump"
    /\ UNCHANGED <<succeeded, succeeded_before, pages, state, opt, ret, i, loaded, calls, result>>

\* line 38: json.dump wrote the whole state and the file was closed
SaveDump ==
    /\ pc = "save_dump"
    /\ disk' = Json(state)
    /\ pc' = ret
    /\ UNCHANGED <<succeeded, succeeded_before, pages, prev_disk, state, opt, ret, i, loaded, calls, result>>

\* open() or json.dump raises (storage fault)
SaveRaises ==
    /\ pc \in {"save_open", "save_dump"}
    /\ pc' = "raised"
    /\ UNCHANGED <<succeeded, succeeded_before, pages, disk, prev_disk, state, opt, ret, i, loaded, calls, result>>

\* the process is terminated
Kill ==
    /\ pc \in Running
    /\ pc' = "killed"
    /\ UNCHANGED <<succeeded, succeeded_before, pages, disk, prev_disk, state, opt, ret, i, loaded, calls, result>>

Next ==
    \/ StartRun
    \/ Step0
    \/ Step1
    \/ InitReturns
    \/ Step2
    \/ Loop
    \/ ExtractReturns
    \/ Sleep
    \/ Step3
    \/ VerifyReturns
    \/ CallRaises
    \/ SaveOpen
    \/ SaveDump
    \/ SaveRaises
    \/ Kill

Spec == Init /\ [][Next]_vars

\* ------------------------------------------- resuming from a given checkpoint
Steps == <<"INITIALIZE", "EXTRACT_NODES", "VERIFY", "COMPLETED">>

\* checkpoints of the document that respect the data model: groups 1..k done in
\* order, none before EXTRACT_NODES, all of them from VERIFY on
Checkpoints(n) ==
    { [step |-> Steps[p],
       completed_groups |-> [j \in 1..k |-> Str(j)],
       toc_segments |-> [j \in 1..k |-> [group |-> Str(j), variant |-> f[j]]],
       total_groups |-> Ceil(n, g),
       total_pages |-> n] :
        <<p, g, k, f>> \in
            { q \in (1..4) \X (1..MaxGroupSize) \X (0..n) \X [1..n -> 1..NumVariants] :
                /\ q[3] <= Ceil(n, q[2])
                /\ q[1] = 1 => q[3] = 0
                /\ q[1] >= 3 => q[3] = Ceil(n, q[2])
                /\ \A j \in 1..n : j > q[3] => q[4][j] = 1 } }

\* the calls that must have returned for a checkpoint to be on disk
SucceededFor(d) ==
    IF d.kind = "json"
    THEN { d.state.completed_groups[k] : k \in 1..Len(d.state.completed_groups) }
         \cup (IF d.state.step = "INITIALIZE" THEN {} ELSE {"generate_toc_init"})
    ELSE {}

InitResume ==
    /\ pages \in 0..MaxPages
    /\ disk \in {Absent} \cup { Json(s) : s \in Checkpoints(pages) }
    /\ succeeded = SucceededFor(disk)
    /\ succeeded_before = succeeded
    /\ InitProcess

SpecResume == InitResume /\ [][Next]_vars

\* ------------------------------------- the page count on larger documents
MaxLawPages == 91       \* page counts 1..MaxLawPages
MaxLawGroupSize == 10   \* max_page_num_each_node in 1..MaxLawGroupSize

InitLaw ==
    /\ pages \in 1..MaxLawPages
    /\ disk = Absent
    /\ succeeded = {}
    /\ succeeded_before = {}
    /\ InitProcess

\* the first process on the document
StartFirst == pc = "idle" /\ \E g \in 1..MaxLawGroupSize : Construct(g)

\* lines 14-46: up to the save of the page and group counts
NextLaw ==
    \/ StartFirst
    \/ Step0
    \/ SaveOpen
    \/ SaveDump

SpecLaw == InitLaw /\ [][NextLaw]_vars

\* ------------------------------------- a document replaced between two runs
\* the file at pdf_path is replaced while no process runs: get_number_of_pages
\* gives another value to the next process
DocumentChanges ==
    /\ pc \in Ended
    /\ pages' \in (0..MaxPages) \ {pages}
    /\ UNCHANGED <<disk, prev_disk, state, opt, pc, ret, i, loaded, calls, result,
                   succeeded, succeeded_before>>

NextDoc ==
    \/ Next
    \/ DocumentChanges

SpecDoc == Init /\ [][NextDoc]_vars

\* ------------------------------------------------ re-invocation until done
\* the steps a process takes by itself, a call returning, and the operator
\* starting the next process after one ended
Progress ==
    \/ StartRun
    \/ Step0
    \/ Step1
    \/ InitReturns
    \/ Step2
    \/ Loop
    \/ ExtractReturns
    \/ Sleep
    \/ Step3
    \/ VerifyReturns
    \/ SaveOpen
    \/ SaveDump

SpecLive == Init /\ [][Next]_vars /\ WF_vars(Progress)

\* ------------------------------------------------------------ properties
TypeOK ==
    /\ pc \in Running \cup Ended
    /\ disk.kind \in {"absent", "partial", "json"}
    /\ opt \in 1..MaxGroupSize

\* the group keys recorded in a state
Done(s) == { s.completed_groups[k] : k \in 1..Len(s.completed_groups) }

\* how many calls of the log were made to fn / to fn for group key
CountFn(fn) == Cardinality({ k \in 1..Len(calls) : calls[k].fn = fn })
CountExtract(key) ==
    Cardinality({ k \in 1..Len(calls) :
        calls[k].fn = "generate_toc_continue" /\ calls[k].group = key })

Rank(step) == CHOOSE p \in 1..4 : Steps[p] = step

\* the state a process starting on a fresh (absent) checkpoint loads, and a
\* run of it that went through to its return
FullRunFromFresh == pc = "returned" /\ loaded = DefaultState

\* C1: a run that loaded a checkpoint in step EXTRACT_NODES and went through
\* to its return (no call failed) issued exactly one generate_toc_continue
\* call for each group of 1..total_groups missing from the loaded
\* completed_groups, none for a group in it, and none for anything else.
C1_IdempotentResume ==
    (pc = "returned" /\ loaded.step = "EXTRACT_NODES") =>
        /\ \A g \in 1..MaxPages :
            CountExtract(Str(g)) =
                IF g \in 1..loaded.total_groups /\ Str(g) \notin Done(loaded) THEN 1 ELSE 0
        /\ CountFn("generate_toc_continue") =
                Cardinality({ g \in 1..loaded.total_groups : Str(g) \notin Done(loaded) })

C1_Witness ==
    /\ pc = "returned"
    /\ loaded.step = "EXTRACT_NODES"
    /\ loaded.total_groups = 3
    /\ Done(loaded) = {"1", "2"}
    /\ CountExtract("3") = 1
    /\ CountFn("generate_toc_continue") = 1

\* C2: after a run from a fresh checkpoint that went through to its return,
\* the persisted checkpoint has step COMPLETED.
C2_CompletedPersisted ==
    FullRunFromFresh => (disk.kind = "json" /\ disk.state.step = "COMPLETED")

\* C3: after a run from a fresh checkpoint that went through to its return, on
\* a document of N >= 1 groups, the persisted completed_groups is "1".."N" in
\* order, the k-th persisted segment is what the extraction call for group k
\* returned, and run() returned what verify_toc returned for exactly these
\* segments.
C3_FullRunResult ==
    (FullRunFromFresh /\ state.total_groups >= 1) =>
        /\ disk.kind = "json"
        /\ LET d == disk.state
               N == d.total_groups
           IN /\ N = Ceil(pages, opt)
              /\ d.completed_groups = [k \in 1..N |-> Str(k)]
              /\ Len(d.toc_segments) = N
              /\ \A k \in 1..N :
                    \E c \in 1..Len(calls) :
                        /\ calls[c].fn = "generate_toc_continue"
                        /\ calls[c].group = Str(k)
                        /\ calls[c].result = <<d.toc_segments[k]>>
              /\ calls[Len(calls)].fn = "verify_toc"
              /\ calls[Len(calls)].segments = d.toc_segments
              /\ result = calls[Len(calls)].result
              /\ result = <<VerifyToc(d.toc_segments)>>

C3_Witness ==
    /\ FullRunFromFresh
    /\ pages = 3
    /\ opt = 1
    /\ Len(disk.state.toc_segments) = 3
    /\ disk.state.toc_segments[1].variant # disk.state.toc_segments[3].variant

\* C4: each checkpoint written replaces one of the same step or of the step
\* just before it in INITIALIZE, EXTRACT_NODES, VERIFY, COMPLETED, and the
\* first checkpoint written has step INITIALIZE.
C4_PhaseOrder ==
    disk.kind = "json" =>
        IF prev_disk.kind = "json"
        THEN Rank(disk.state.step) - Rank(prev_disk.state.step) \in {0, 1}
        ELSE disk.state.step = "INITIALIZE"

C4_Witness ==
    /\ disk.kind = "json"
    /\ prev_disk.kind = "json"
    /\ disk.state.step = "VERIFY"
    /\ prev_disk.state.step = "EXTRACT_NODES"
    /\ pc = "killed"

\* C5: whenever the step in memory or on disk is VERIFY or COMPLETED, every
\* group of 1..total_groups is in completed_groups.
AllGroupsDone(s) == \A g \in 1..s.total_groups : Str(g) \in Done(s)

C5_VerifyOnlyWhenAllDone ==
    /\ state.step \in {"VERIFY", "COMPLETED"} => AllGroupsDone(state)
    /\ (disk.kind = "json" /\ disk.state.step \in {"VERIFY", "COMPLETED"}) =>
            AllGroupsDone(disk.state)

C5_Witness ==
    /\ disk.kind = "json"
    /\ disk.state.step = "VERIFY"
    /\ disk.state.total_groups = 3
    /\ state.step = "VERIFY"
    /\ pc = "call_verify"

\* C6: a run that loaded a checkpoint in step COMPLETED issues no
\* generate_toc_init and no generate_toc_continue call, and when it returns it
\* has issued exactly one verify_toc call, on the loaded segments, and returns
\* that call's result.
C6_TerminalStability ==
    (pc \in Running \cup {"returned"} /\ loaded.step = "COMPLETED") =>
        /\ CountFn("generate_toc_init") = 0
        /\ CountFn("generate_toc_continue") = 0
        /\ CountFn("verify_toc") <= 1
        /\ pc = "returned" =>
            /\ Len(calls) = 1
            /\ calls[1].fn = "verify_toc"
            /\ calls[1].segments = loaded.toc_segments
            /\ result = calls[1].result
            /\ result = <<VerifyToc(loaded.toc_segments)>>

C6_Witness ==
    /\ pc = "returned"
    /\ loaded.step = "COMPLETED"
    /\ Len(loaded.toc_segments) = 2
    /\ Len(calls) = 1

\* C7: at every point, also in the middle of _save_state, the checkpoint file
\* is absent or decodes to a state.
C7_FileAlwaysDecodable == disk.kind \in {"absent", "json"}

\* C8: a process started on a file that does not decode ends with the load
\* error, without a call and without touching the file; a process gets the
\* defaulted state from load only when there is no file, and otherwise what
\* the file holds.
C8_CorruptLoadFails ==
    [][ /\ (pc \in Ended /\ disk.kind = "partial") =>
              (pc' = "load_error" /\ disk' = disk /\ calls' = <<>>)
        /\ (pc \in Ended /\ pc' = "step0") =>
              \/ disk.kind = "absent" /\ state' = DefaultState
              \/ disk.kind = "json" /\ state' = disk.state
        /\ pc = "load_error" => disk.kind = "partial" /\ calls = <<>> ]_vars

C8_Witness == pc = "load_error" /\ disk.kind = "partial" /\ prev_disk.kind = "json"

\* C9: while an external call is in flight, the checkpoint file holds exactly
\* the state in memory.
C9_PersistBeforeCall ==
    pc \in {"call_init", "call_extract", "call_verify"} => disk = Json(state)

C9_Witness ==
    /\ pc = "call_extract"
    /\ Len(state.completed_groups) = 2
    /\ Len(loaded.completed_groups) = 0

\* C10: every checkpoint on disk has as many segments as completed groups.
C10_SegmentsMatchGroups ==
    disk.kind = "json" =>
        Len(disk.state.toc_segments) = Len(disk.state.completed_groups)

C10_Witness ==
    /\ disk.kind = "json"
    /\ Len(disk.state.toc_segments) = 2
    /\ Len(disk.state.completed_groups) = 2
    /\ disk.state.step = "EXTRACT_NODES"

\* the number of the group a call of the log was made for (0 if none)
GroupOf(c) ==
    IF \E g \in 1..MaxPages : Str(g) = c.group
    THEN CHOOSE g \in 1..MaxPages : Str(g) = c.group
    ELSE 0

ExtractPositions == { k \in 1..Len(calls) : calls[k].fn = "generate_toc_continue" }

\* the last call of the log is one that has not returned
LastCallPending == calls # <<>> /\ calls[Len(calls)].result = <<>>

\* C11: the extraction calls of a process are for strictly increasing group
\* numbers, each issued after the one before it returned; an extraction call
\* in flight is never for a group the checkpoint file lists as completed; and
\* a process calls at most one group whose extraction had already returned to
\* an earlier process, a group that the checkpoint it loaded does not list.
C11_ExtractionOrder ==
    /\ \A a, b \in ExtractPositions :
            a < b => (GroupOf(calls[a]) < GroupOf(calls[b]) /\ calls[a].result # <<>>)
    /\ \A a \in ExtractPositions : GroupOf(calls[a]) >= 1
    /\ pc = "call_extract" =>
            /\ disk.kind = "json"
            /\ calls[Len(calls)].group = Str(i)
            /\ Str(i) \notin Done(disk.state)
    /\ LET again == { k \in ExtractPositions : calls[k].group \in succeeded_before }
       IN /\ Cardinality(again) <= 1
          /\ \A k \in again : calls[k].group \notin Done(loaded)

C11_Witness ==
    /\ pc = "call_extract"
    /\ i = 3
    /\ "3" \in succeeded_before
    /\ Len(calls) = 1
    /\ Done(loaded) = {"1", "2"}

\* C12: on a document of 0 pages total_groups is 0, no extraction call is
\* ever issued, the loop ends at its first test, a checkpoint with step VERIFY
\* replaces one with step EXTRACT_NODES (or is a rewrite of itself by a later
\* process), and verify_toc is called on the empty list of segments.
C12_DegenerateDocument ==
    pages = 0 =>
        /\ state.total_groups = 0
        /\ disk.kind = "json" => disk.state.total_groups = 0
        /\ CountFn("generate_toc_continue") = 0
        /\ pc \notin {"call_extract", "sleep"}
        /\ pc = "loop" => (i = 1 /\ state.step = "EXTRACT_NODES")
        /\ (disk.kind = "json" /\ disk.state.step = "VERIFY") =>
                (prev_disk.kind = "json"
                    /\ prev_disk.state.step \in {"EXTRACT_NODES", "VERIFY"}
                    /\ disk.state.toc_segments = <<>>)
        /\ pc = "call_verify" => calls[Len(calls)].segments = <<>>

C12_Witness ==
    /\ pages = 0
    /\ pc = "returned"
    /\ loaded = DefaultState
    /\ disk.kind = "json"
    /\ disk.state.step = "VERIFY"
    /\ Len(calls) = 2
    /\ result = <<VerifyToc(<<>>)>>

\* C14: when an external call raises, run() ends with that error, and the
\* checkpoint file and the state in memory are what they were when the call
\* was issued: the file holds the state of the last save, the group of a
\* failed extraction is not in completed_groups and the step is the one the
\* call was issued in.
C14_FatalErrorPropagates ==
    /\ [][ (pc \in {"call_init", "call_extract", "call_verify"} /\ pc' = "raised") =>
                (disk' = disk /\ state' = state /\ calls' = calls) ]_vars
    /\ [](  (pc = "raised" /\ LastCallPending) =>
                /\ disk = Json(state)
                /\ result = <<>>
                /\ LET c == calls[Len(calls)] IN
                    /\ c.fn = "generate_toc_init" => disk.state.step = "INITIALIZE"
                    /\ c.fn = "generate_toc_continue" =>
                            /\ disk.state.step = "EXTRACT_NODES"
                            /\ c.group \notin Done(disk.state)
                    /\ c.fn = "verify_toc" => disk.state.step = "VERIFY" )

C14_Witness ==
    /\ pc = "raised"
    /\ LastCallPending
    /\ calls[Len(calls)].group = "2"
    /\ Done(disk.state) = {"1"}

\* C17: a process issues generate_toc_init at most once and only if it loaded
\* step INITIALIZE, and while that call is in flight the file has step
\* INITIALIZE; an extraction call is in flight only when generate_toc_init has
\* returned to some process and the file has step EXTRACT_NODES; verify_toc is
\* in flight only when the extraction of every group has returned to some
\* process and the file has step VERIFY.
C17_CallsFollowPhases ==
    /\ CountFn("generate_toc_init") <= 1
    /\ CountFn("generate_toc_init") = 1 =>
            (loaded.step = "INITIALIZE" /\ calls[1].fn = "generate_toc_init")
    /\ pc = "call_init" => (disk.kind = "json" /\ disk.state.step = "INITIALIZE")
    /\ pc = "call_extract" =>
            /\ "generate_toc_init" \in succeeded
            /\ disk.kind = "json"
            /\ disk.state.step = "EXTRACT_NODES"
    /\ pc = "call_verify" =>
            /\ disk.kind = "json"
            /\ disk.state.step = "VERIFY"
            /\ \A g \in 1..disk.state.total_groups : Str(g) \in succeeded

C17_Witness ==
    /\ pc = "call_verify"
    /\ loaded.step = "INITIALIZE"
    /\ Len(calls) = 4
    /\ disk.state.total_groups = 2

\* C18: a checkpoint written lists every completed group of the checkpoint it
\* replaces, and its segments start with the segments of that checkpoint.
IsPrefix(a, b) == Len(a) <= Len(b) /\ \A k \in 1..Len(a) : a[k] = b[k]

C18_MonotoneProgress ==
    (disk.kind = "json" /\ prev_disk.kind = "json") =>
        /\ Done(prev_disk.state) \subseteq Done(disk.state)
        /\ IsPrefix(prev_disk.state.completed_groups, disk.state.completed_groups)
        /\ IsPrefix(prev_disk.state.toc_segments, disk.state.toc_segments)

C18_Witness ==
    /\ disk.kind = "json"
    /\ prev_disk.kind = "json"
    /\ Len(prev_disk.state.toc_segments) = 1
    /\ Len(disk.state.toc_segments) = 2
    /\ Len(loaded.toc_segments) = 1

\* C19: in every checkpoint on disk completed_groups is "1", .., "k" in this
\* order for some k of 0..total_groups, and the j-th of its k segments is a
\* result of the extraction of group j.
C19_CompletedIsPrefix ==
    disk.kind = "json" =>
        LET d == disk.state
            k == Len(d.completed_groups)
        IN /\ k <= d.total_groups
           /\ d.completed_groups = [j \in 1..k |-> Str(j)]
           /\ Len(d.toc_segments) = k
           /\ \A j \in 1..k : d.toc_segments[j].group = Str(j)

C19_Witness ==
    /\ disk.kind = "json"
    /\ disk.state.completed_groups = <<"1", "2">>
    /\ disk.state.total_groups = 3
    /\ Done(loaded) = {"1"}
    /\ pc = "killed"

C20_WitnessReturned ==
    /\ pc = "returned"
    /\ loaded.step = "VERIFY"
    /\ Len(loaded.toc_segments) = 2

\* q is the least integer with q * g >= n
IsCeiling(q, n, g) == q * g >= n /\ (q - 1) * g < n

\* C13: the total_groups computed and saved for a document of total_pages > 0
\* pages with group size g is the ceiling of total_pages / g.
C13_GroupCountLaw ==
    /\ (pc \in {"save_open", "save_dump", "step1"} /\ state.total_pages > 0) =>
            (state.total_pages = pages /\ IsCeiling(state.total_groups, pages, opt))
    /\ (disk.kind = "json" /\ disk.state.total_pages > 0) =>
            (disk.state.total_pages = pages /\ IsCeiling(disk.state.total_groups, pages, opt))

C13_Witness ==
    /\ disk.kind = "json"
    /\ pages = 91
    /\ opt = 10
    /\ disk.state.total_pages = 91
    /\ disk.state.total_groups = 10

C13_Witness90 ==
    /\ disk.kind = "json"
    /\ pages = 90
    /\ opt = 10
    /\ disk.state.total_groups = 9

\* C15: if from some point on no process is killed or aborted by a raising
\* call or save, then at some point a run returns the final structure.
C15_EventualCompletion ==
    <>[](pc \notin {"killed", "raised"}) =>
        <>(pc = "returned" /\ calls # <<>> /\ calls[Len(calls)].fn = "verify_toc"
                /\ calls[Len(calls)].result # <<>>)

\* C16: a checkpoint written over one with total_pages > 0 has the same
\* total_pages and total_groups, and so has the state of any process that
\* loaded one with total_pages > 0, whatever its group size and whatever the
\* page count of the document now is.
C16_CountsImmutable ==
    /\ (disk.kind = "json" /\ prev_disk.kind = "json" /\ prev_disk.state.total_pages > 0) =>
            /\ disk.state.total_pages = prev_disk.state.total_pages
            /\ disk.state.total_groups = prev_disk.state.total_groups
    /\ (pc \in Running /\ loaded.total_pages > 0) =>
            /\ state.total_pages = loaded.total_pages
            /\ state.total_groups = loaded.total_groups

C16_Witness ==
    /\ disk.kind = "json"
    /\ prev_disk.kind = "json"
    /\ prev_disk.state.total_pages = 3
    /\ prev_disk.state.total_groups = 3
    /\ disk.state.step = "EXTRACT_NODES"
    /\ loaded.step = "INITIALIZE"
    /\ loaded.total_pages = 3
    /\ opt = 2
    /\ pages = 2
====
